---- MODULE Spec2Model ----
(***************************************************************************)
(* unrustlelogs: the two OAuth state stores (dggStates, twitchStates) with *)
(* their reader/writer locks and per-entry expiry goroutines, and the      *)
(* session layer (jwtMiddleware, getUser, delete/undelete/index handlers). *)
(***************************************************************************)
EXTENDS Integers, Sequences, FiniteSets, TLC

\* ------------------------------------------------------------------ bounds
\* login and callback requests served, together
MaxRequests == 3

\* ------------------------------------------------------- program constants
\* time.Sleep(time.Minute * 5): the model counts time in minutes.
ExpiryMinutes == 5

TITLE == "UnRustleLogs"
TWITCHSERVICE == "twtch"
DESTINYGGSERVICE == "destinygg"

\* ------------------------------------------------------------ input sets
Providers == {"twitch", "dgg"}
Nonces == {"s1", "s2"}
\* login draws a fresh random verifier: issuance i draws Verifier(i)
Verifier(i) == <<"verifier", i>>
IssueIds == 1..MaxRequests
CallbackIds == 1..MaxRequests

VARIABLES
  \* UnRustleLogs fields
  dggStates,          \* map[string]*state
  dggStateMutex,      \* sync.RWMutex: [w: holders in exclusive mode, r: holders in shared mode]
  twitchStates,       \* map[string]struct{}
  twitchStateMutex,   \* sync.RWMutex
  \* goroutines
  issue,              \* login requests inside add*State, by issuance id
  timer,              \* the goroutine each add*State spawns, by issuance id
  cb,                 \* callback requests: has*State, then delete*State
  sleep,              \* minutes left of each timer goroutine's time.Sleep
  removed,            \* history: which goroutine removed which entry
  \* session layer
  prefs,              \* the preference table behind AddUser / DeleteUser / UserInDatabase
  trace,              \* history: the last two requests served, with their responses
  lastToggle          \* history: the (name, service) whose last served delete / undelete was a delete

storeVars == <<dggStates, dggStateMutex, twitchStates, twitchStateMutex,
               issue, timer, cb, sleep, removed>>
sessionVars == <<prefs, trace, lastToggle>>
vars == <<dggStates, dggStateMutex, twitchStates, twitchStateMutex,
          issue, timer, cb, sleep, removed, prefs, trace, lastToggle>>

\* ------------------------------------------------------------- sync.RWMutex
Unlocked == [w |-> {}, r |-> {}]
\* Lock(): exclusive, waits for every holder to leave
CanLock(m) == m.w = {} /\ m.r = {}
\* an RLock() that does not wait for the writer
CanRLockAlways(m) == TRUE
\* RLock(): shared, waits for the writer to leave
CanRLock(m) == m.w = {}
Lock(m, g) == [m EXCEPT !.w = {g}]
Unlock(m, g) == [m EXCEPT !.w = @ \ {g}]
RLock(m, g) == [m EXCEPT !.r = @ \cup {g}]
RUnlock(m, g) == [m EXCEPT !.r = @ \ {g}]

\* ------------------------------------------------------------------- maps
EmptyMap == [k \in {} |-> 0]
MapPut(m, k, v) == [x \in DOMAIN m \cup {k} |-> IF x = k THEN v ELSE m[x]]
MapDelete(m, k) == [x \in DOMAIN m \ {k} |-> m[x]]

\* the entry addDggState stores; id is the issuance that wrote it
\* (time: time.Now().UTC() is never read again; the age of the entry is
\* ExpiryMinutes - sleep[id] while its timer sleeps)
dggEntry(verifier, id) ==
  [verifier |-> verifier, service |-> TWITCHSERVICE, id |-> id]
\* the entry addTwitchState stores (struct{}{}); id is the issuance that wrote it
twitchEntry(id) == [id |-> id]

\* hasDggState: s, ok := ur.dggStates[state]; return s.verifier, ok
\* s is a nil *state when the key is absent, and s.verifier then panics.
hasDggState(state) ==
  IF state \in DOMAIN dggStates
    THEN [res |-> "found", verifier |-> dggStates[state].verifier,
          entry |-> dggStates[state].id]
    ELSE [res |-> "panic", verifier |-> <<>>, entry |-> 0]

\* a lookup that takes a state pending in either store
hasTwitchStateAnyStore(state) ==
  IF state \in DOMAIN twitchStates
    THEN [res |-> "found", verifier |-> <<>>, entry |-> twitchStates[state].id]
    ELSE IF state \in DOMAIN dggStates
      THEN [res |-> "found", verifier |-> <<>>, entry |-> dggStates[state].id]
      ELSE [res |-> "notfound", verifier |-> <<>>, entry |-> 0]

\* hasTwitchState: _, ok := ur.twitchStates[state]; return ok
hasTwitchState(state) ==
  IF state \in DOMAIN twitchStates
    THEN [res |-> "found", verifier |-> <<>>, entry |-> twitchStates[state].id]
    ELSE [res |-> "notfound", verifier |-> <<>>, entry |-> 0]

\* the goroutine's 5 minutes are over
Expired(i) == sleep[i] = 0

\* ------------------------------------------------------------------- Init
IdleIssue == [pc |-> "idle", p |-> "twitch", s |-> "s1", verifier |-> <<>>]
IdleCallback == [pc |-> "idle", p |-> "twitch", s |-> "s1", res |-> "none",
                 verifier |-> <<>>, entry |-> 0, after |-> {}, wLook |-> 0, wDel |-> 0,
                 lapsed |-> FALSE, other |-> FALSE]

Init ==
  /\ dggStates = EmptyMap
  /\ twitchStates = EmptyMap
  /\ dggStateMutex = Unlocked
  /\ twitchStateMutex = Unlocked
  /\ issue = [i \in IssueIds |-> IdleIssue]
  /\ timer = [i \in IssueIds |-> "none"]
  /\ cb = [c \in CallbackIds |-> IdleCallback]
  /\ sleep = [i \in IssueIds |-> ExpiryMinutes]
  /\ removed = {}
  /\ prefs = {}
  /\ trace = <<>>
  /\ lastToggle = {}

\* ids are handed out in order: goroutine i starts after goroutine i-1 has
Started ==
  Cardinality({i \in IssueIds : issue[i].pc # "idle"})
    + Cardinality({c \in CallbackIds : cb[c].pc # "idle"})
NextIssue(i) ==
  /\ Started < MaxRequests
  /\ issue[i].pc = "idle"
  /\ IF i = 1 THEN TRUE ELSE issue[i - 1].pc # "idle"
NextCallback(c) ==
  /\ Started < MaxRequests
  /\ cb[c].pc = "idle"
  /\ IF c = 1 THEN TRUE ELSE cb[c - 1].pc # "idle"

\* the state values are random strings and the code treats them alike: the
\* requests name them in the order s1, s2
UsedNonces ==
  {issue[i].s : i \in {j \in IssueIds : issue[j].pc # "idle"}}
    \cup {cb[c].s : c \in {d \in CallbackIds : cb[d].pc # "idle"}}
NextNonce(s) == s = "s1" \/ "s1" \in UsedNonces

\* issuances of (p, s) whose map write has happened
Writes(p, s) ==
  Cardinality({i \in IssueIds : issue[i].pc = "done" /\ issue[i].p = p /\ issue[i].s = s})
\* callbacks that found (p, s) and whose delete has completed
Consumers(p, s) ==
  {c \in CallbackIds : cb[c].pc = "done" /\ cb[c].res = "found"
                        /\ cb[c].p = p /\ cb[c].s = s}

\* every issuance of (p, s) so far has had its expiry goroutine run
Lapsed(p, s) ==
  /\ Writes(p, s) > 0
  /\ \A i \in IssueIds :
       (issue[i].pc = "done" /\ issue[i].p = p /\ issue[i].s = s) => timer[i] = "done"

\* ------------------------------------------------------------ addDggState
\* ur.dggStateMutex.Lock()
addDggStateLock(i, s) ==
  /\ NextIssue(i)
  /\ NextNonce(s)
  /\ CanLock(dggStateMutex)
  /\ dggStateMutex' = Lock(dggStateMutex, <<"add", i>>)
  /\ issue' = [issue EXCEPT ![i] = [pc |-> "locked", p |-> "dgg", s |-> s,
                                    verifier |-> Verifier(i)]]
  /\ UNCHANGED <<dggStates, twitchStates, twitchStateMutex, timer, cb, sleep,
                 removed, prefs, trace, lastToggle>>

\* ur.dggStates[s] = &state{...}; go func() {...}(); deferred Unlock()
addDggState(i) ==
  /\ issue[i].pc = "locked" /\ issue[i].p = "dgg"
  /\ dggStates' = MapPut(dggStates, issue[i].s, dggEntry(issue[i].verifier, i))
  /\ timer' = [timer EXCEPT ![i] = "sleeping"]
  /\ issue' = [issue EXCEPT ![i].pc = "done"]
  /\ dggStateMutex' = Unlock(dggStateMutex, <<"add", i>>)
  /\ UNCHANGED <<twitchStates, twitchStateMutex, cb, sleep, removed, prefs, trace, lastToggle>>

\* --------------------------------------------------------- addTwitchState
addTwitchStateLock(i, s) ==
  /\ NextIssue(i)
  /\ NextNonce(s)
  /\ CanLock(twitchStateMutex)
  /\ twitchStateMutex' = Lock(twitchStateMutex, <<"add", i>>)
  /\ issue' = [issue EXCEPT ![i] = [pc |-> "locked", p |-> "twitch", s |-> s,
                                    verifier |-> <<>>]]
  /\ UNCHANGED <<dggStates, dggStateMutex, twitchStates, timer, cb, sleep,
                 removed, prefs, trace, lastToggle>>

\* an issue that returns without releasing the lock
addTwitchStateNoUnlock(i) ==
  /\ issue[i].pc = "locked" /\ issue[i].p = "twitch"
  /\ twitchStates' = MapPut(twitchStates, issue[i].s, twitchEntry(i))
  /\ timer' = [timer EXCEPT ![i] = "sleeping"]
  /\ issue' = [issue EXCEPT ![i].pc = "done"]
  /\ twitchStateMutex' = twitchStateMutex
  /\ UNCHANGED <<dggStates, dggStateMutex, cb, sleep, removed, prefs, trace, lastToggle>>

addTwitchState(i) ==
  /\ issue[i].pc = "locked" /\ issue[i].p = "twitch"
  /\ twitchStates' = MapPut(twitchStates, issue[i].s, twitchEntry(i))
  /\ timer' = [timer EXCEPT ![i] = "sleeping"]
  /\ issue' = [issue EXCEPT ![i].pc = "done"]
  /\ twitchStateMutex' = Unlock(twitchStateMutex, <<"add", i>>)
  /\ UNCHANGED <<dggStates, dggStateMutex, cb, sleep, removed, prefs, trace, lastToggle>>

\* ------------------------------------------------------------ has*State
\* A callback request validates its state parameter against the store: it
\* calls has*State and, when the state was found, delete*State (the callback
\* handlers themselves are not part of main.go).
hasDggStateRLock(c, s) ==
  /\ NextCallback(c)
  /\ NextNonce(s)
  /\ CanRLock(dggStateMutex)
  /\ dggStateMutex' = RLock(dggStateMutex, <<"cb", c>>)
  /\ cb' = [cb EXCEPT ![c].pc = "rlocked", ![c].p = "dgg", ![c].s = s]
  /\ UNCHANGED <<dggStates, twitchStates, twitchStateMutex, issue, timer, sleep,
                 removed, prefs, trace, lastToggle>>

\* the lookup itself and the deferred RUnlock(), which also runs when the
\* lookup panics; a panic ends the request (gin's recovery answers it)
hasDggStateReturn(c) ==
  /\ cb[c].pc = "rlocked" /\ cb[c].p = "dgg"
  /\ LET r == hasDggState(cb[c].s) IN
       cb' = [cb EXCEPT ![c].pc = IF r.res = "found" THEN "looked" ELSE "done",
                        ![c].res = r.res,
                        ![c].verifier = r.verifier,
                        ![c].entry = r.entry,
                        ![c].after = Consumers("dgg", cb[c].s),
                        ![c].wLook = Writes("dgg", cb[c].s),
                        ![c].lapsed = Lapsed("dgg", cb[c].s),
                        ![c].other = cb[c].s \in DOMAIN twitchStates]
  /\ dggStateMutex' = RUnlock(dggStateMutex, <<"cb", c>>)
  /\ UNCHANGED <<dggStates, twitchStates, twitchStateMutex, issue, timer, sleep,
                 removed, prefs, trace, lastToggle>>

hasTwitchStateRLock(c, s) ==
  /\ NextCallback(c)
  /\ NextNonce(s)
  /\ CanRLock(twitchStateMutex)
  /\ twitchStateMutex' = RLock(twitchStateMutex, <<"cb", c>>)
  /\ cb' = [cb EXCEPT ![c].pc = "rlocked", ![c].p = "twitch", ![c].s = s]
  /\ UNCHANGED <<dggStates, dggStateMutex, twitchStates, issue, timer, sleep,
                 removed, prefs, trace, lastToggle>>

hasTwitchStateReturn(c) ==
  /\ cb[c].pc = "rlocked" /\ cb[c].p = "twitch"
  /\ LET r == hasTwitchState(cb[c].s) IN
       cb' = [cb EXCEPT ![c].pc = IF r.res = "found" THEN "looked" ELSE "done",
                        ![c].res = r.res,
                        ![c].verifier = r.verifier,
                        ![c].entry = r.entry,
                        ![c].after = Consumers("twitch", cb[c].s),
                        ![c].wLook = Writes("twitch", cb[c].s),
                        ![c].lapsed = Lapsed("twitch", cb[c].s),
                        ![c].other = cb[c].s \in DOMAIN dggStates]
  /\ twitchStateMutex' = RUnlock(twitchStateMutex, <<"cb", c>>)
  /\ UNCHANGED <<dggStates, dggStateMutex, twitchStates, issue, timer, sleep,
                 removed, prefs, trace, lastToggle>>

\* ---------------------------------------------------------- delete*State
\* a delete that empties the map when the key is gone
deleteDggStateClears(g, state) ==
  IF state \in DOMAIN dggStates
    THEN /\ dggStates' = MapDelete(dggStates, state)
         /\ removed' = removed \cup
              {[p |-> "dgg", s |-> state, entry |-> dggStates[state].id, by |-> g]}
    ELSE dggStates' = EmptyMap /\ UNCHANGED removed

\* _, ok := ur.dggStates[state]; if ok { delete(ur.dggStates, state) }
deleteDggState(g, state) ==
  IF state \in DOMAIN dggStates
    THEN /\ dggStates' = MapDelete(dggStates, state)
         /\ removed' = removed \cup
              {[p |-> "dgg", s |-> state, entry |-> dggStates[state].id, by |-> g]}
    ELSE UNCHANGED <<dggStates, removed>>

\* a delete that leaves the entry in the map
deleteTwitchStateKeeps(g, state) == UNCHANGED <<twitchStates, removed>>

deleteTwitchState(g, state) ==
  IF state \in DOMAIN twitchStates
    THEN /\ twitchStates' = MapDelete(twitchStates, state)
         /\ removed' = removed \cup
              {[p |-> "twitch", s |-> state, entry |-> twitchStates[state].id, by |-> g]}
    ELSE UNCHANGED <<twitchStates, removed>>

\* the callback found the state and now deletes it: Lock()
callbackDeleteDggStateLock(c) ==
  /\ cb[c].pc = "looked" /\ cb[c].p = "dgg"
  /\ CanLock(dggStateMutex)
  /\ dggStateMutex' = Lock(dggStateMutex, <<"cb", c>>)
  /\ cb' = [cb EXCEPT ![c].pc = "wlocked"]
  /\ UNCHANGED <<dggStates, twitchStates, twitchStateMutex, issue, timer, sleep,
                 removed, prefs, trace, lastToggle>>

callbackDeleteDggState(c) ==
  /\ cb[c].pc = "wlocked" /\ cb[c].p = "dgg"
  /\ deleteDggState(<<"cb", c>>, cb[c].s)
  /\ dggStateMutex' = Unlock(dggStateMutex, <<"cb", c>>)
  /\ cb' = [cb EXCEPT ![c].pc = "done", ![c].wDel = Writes("dgg", cb[c].s)]
  /\ UNCHANGED <<twitchStates, twitchStateMutex, issue, timer, sleep, prefs, trace, lastToggle>>

callbackDeleteTwitchStateLock(c) ==
  /\ cb[c].pc = "looked" /\ cb[c].p = "twitch"
  /\ CanLock(twitchStateMutex)
  /\ twitchStateMutex' = Lock(twitchStateMutex, <<"cb", c>>)
  /\ cb' = [cb EXCEPT ![c].pc = "wlocked"]
  /\ UNCHANGED <<dggStates, dggStateMutex, twitchStates, issue, timer, sleep,
                 removed, prefs, trace, lastToggle>>

callbackDeleteTwitchState(c) ==
  /\ cb[c].pc = "wlocked" /\ cb[c].p = "twitch"
  /\ deleteTwitchState(<<"cb", c>>, cb[c].s)
  /\ twitchStateMutex' = Unlock(twitchStateMutex, <<"cb", c>>)
  /\ cb' = [cb EXCEPT ![c].pc = "done", ![c].wDel = Writes("twitch", cb[c].s)]
  /\ UNCHANGED <<dggStates, dggStateMutex, issue, timer, sleep, prefs, trace, lastToggle>>

\* the goroutine of add*State: time.Sleep(time.Minute * 5), then delete*State
expireDggStateLock(i) ==
  /\ timer[i] = "sleeping" /\ issue[i].p = "dgg"
  /\ Expired(i)
  /\ CanLock(dggStateMutex)
  /\ dggStateMutex' = Lock(dggStateMutex, <<"timer", i>>)
  /\ timer' = [timer EXCEPT ![i] = "wlocked"]
  /\ UNCHANGED <<dggStates, twitchStates, twitchStateMutex, issue, cb, sleep,
                 removed, prefs, trace, lastToggle>>

expireDggState(i) ==
  /\ timer[i] = "wlocked" /\ issue[i].p = "dgg"
  /\ deleteDggState(<<"timer", i>>, issue[i].s)
  /\ dggStateMutex' = Unlock(dggStateMutex, <<"timer", i>>)
  /\ timer' = [timer EXCEPT ![i] = "done"]
  /\ UNCHANGED <<twitchStates, twitchStateMutex, issue, cb, sleep, prefs, trace, lastToggle>>

\* an expiry that takes the Twitch lock only while the dgg lock is free too
expireTwitchStateLockBothFree(i) ==
  /\ timer[i] = "sleeping" /\ issue[i].p = "twitch"
  /\ Expired(i)
  /\ CanLock(twitchStateMutex) /\ CanLock(dggStateMutex)
  /\ twitchStateMutex' = Lock(twitchStateMutex, <<"timer", i>>)
  /\ timer' = [timer EXCEPT ![i] = "wlocked"]
  /\ UNCHANGED <<dggStates, dggStateMutex, twitchStates, issue, cb, sleep,
                 removed, prefs, trace, lastToggle>>

expireTwitchStateLock(i) ==
  /\ timer[i] = "sleeping" /\ issue[i].p = "twitch"
  /\ Expired(i)
  /\ CanLock(twitchStateMutex)
  /\ twitchStateMutex' = Lock(twitchStateMutex, <<"timer", i>>)
  /\ timer' = [timer EXCEPT ![i] = "wlocked"]
  /\ UNCHANGED <<dggStates, dggStateMutex, twitchStates, issue, cb, sleep,
                 removed, prefs, trace, lastToggle>>

expireTwitchState(i) ==
  /\ timer[i] = "wlocked" /\ issue[i].p = "twitch"
  /\ deleteTwitchState(<<"timer", i>>, issue[i].s)
  /\ twitchStateMutex' = Unlock(twitchStateMutex, <<"timer", i>>)
  /\ timer' = [timer EXCEPT ![i] = "done"]
  /\ UNCHANGED <<dggStates, dggStateMutex, issue, cb, sleep, prefs, trace, lastToggle>>

\* a minute passes
Sleeping(i) == timer[i] = "sleeping" /\ sleep[i] > 0
Tick ==
  /\ \E i \in IssueIds : Sleeping(i)
  /\ sleep' = [i \in IssueIds |-> IF Sleeping(i) THEN sleep[i] - 1 ELSE sleep[i]]
  /\ UNCHANGED <<dggStates, dggStateMutex, twitchStates, twitchStateMutex,
                 issue, timer, cb, removed, prefs, trace, lastToggle>>

StoreNext ==
  \/ \E i \in IssueIds, s \in Nonces : addDggStateLock(i, s)
  \/ \E i \in IssueIds : addDggState(i)
  \/ \E i \in IssueIds, s \in Nonces : addTwitchStateLock(i, s)
  \/ \E i \in IssueIds : addTwitchState(i)
  \/ \E c \in CallbackIds, s \in Nonces : hasDggStateRLock(c, s)
  \/ \E c \in CallbackIds : hasDggStateReturn(c)
  \/ \E c \in CallbackIds, s \in Nonces : hasTwitchStateRLock(c, s)
  \/ \E c \in CallbackIds : hasTwitchStateReturn(c)
  \/ \E c \in CallbackIds : callbackDeleteDggStateLock(c)
  \/ \E c \in CallbackIds : callbackDeleteDggState(c)
  \/ \E c \in CallbackIds : callbackDeleteTwitchStateLock(c)
  \/ \E c \in CallbackIds : callbackDeleteTwitchState(c)
  \/ \E i \in IssueIds : expireDggStateLock(i)
  \/ \E i \in IssueIds : expireDggState(i)
  \/ \E i \in IssueIds : expireTwitchStateLock(i)
  \/ \E i \in IssueIds : expireTwitchState(i)
  \/ Tick

Spec == Init /\ [][StoreNext]_vars

\* The scheduler runs every goroutine that can run, time passes, and
\* sync.RWMutex hands the lock to every goroutine that keeps asking for it;
\* requests arrive or not (no fairness on add*StateLock and has*StateRLock,
\* which begin with the arrival of a request).
Running ==
  \/ \E i \in IssueIds : addDggState(i) \/ addTwitchState(i)
  \/ \E c \in CallbackIds : hasDggStateReturn(c) \/ hasTwitchStateReturn(c)
  \/ \E c \in CallbackIds : callbackDeleteDggState(c) \/ callbackDeleteTwitchState(c)
  \/ \E i \in IssueIds : expireDggState(i) \/ expireTwitchState(i)
Acquiring ==
  \/ \E c \in CallbackIds : callbackDeleteDggStateLock(c) \/ callbackDeleteTwitchStateLock(c)
  \/ \E i \in IssueIds : expireDggStateLock(i) \/ expireTwitchStateLock(i)
Fairness ==
  /\ WF_vars(Running)
  /\ WF_vars(Tick)
  /\ SF_vars(Acquiring)

SpecFair == Init /\ [][StoreNext]_vars /\ Fairness

\* ------------------------------------------------- claims on the stores
\* callback c has done its lookup
Looked(c) == cb[c].res # "none"

\* C1: callbacks that replay one issued nonce concurrently, each doing the
\* lookup and then the delete: exactly one of them observes found=true, so
\* no two callbacks find the same entry.
C1_ExactlyOneFound ==
  \A c1, c2 \in CallbackIds :
    (/\ c1 # c2
     /\ cb[c1].p = cb[c2].p /\ cb[c1].s = cb[c2].s
     /\ cb[c1].res = "found" /\ cb[c2].res = "found")
      => cb[c1].entry # cb[c2].entry

\* C2: an entry that was issued and not consumed is unconsumable once its
\* expiry goroutine has run: a lookup with its nonce reports not-found.
C2_ExpiredNotFound ==
  \A c \in CallbackIds :
    (Looked(c) /\ cb[c].lapsed /\ cb[c].after = {}) => cb[c].res = "notfound"

\* C3: a lookup of a state value that this provider's store never issued
\* never reports found, also while the other provider's store holds it.
C3_NeverIssuedFailsClosed ==
  \A c \in CallbackIds :
    (Looked(c) /\ cb[c].wLook = 0) => cb[c].res # "found"

C3_Witness ==
  \E c \in CallbackIds :
    Looked(c) /\ cb[c].wLook = 0 /\ cb[c].other /\ cb[c].res # "found"

\* when c2 looked the state up, a callback had consumed it and no login had
\* written it again since
SequentialReplay(c2) ==
  \E c1 \in cb[c2].after : cb[c1].wDel = cb[c2].wLook

\* C4: after a callback has consumed a nonce (found it, delete completed), a
\* later callback with the same nonce and no re-issue in between does not
\* find it.
C4_SequentialReplayFails ==
  \A c2 \in CallbackIds :
    (Looked(c2) /\ SequentialReplay(c2)) => cb[c2].res # "found"

C4_Witness ==
  \E c2 \in CallbackIds :
    Looked(c2) /\ SequentialReplay(c2) /\ cb[c2].res # "found"

\* the entry of issuance i: removed by a callback, replaced by a later
\* issuance of the same state, still in its map
ConsumedEntry(i) ==
  \E r \in removed : r.entry = i /\ r.by[1] = "cb"
Overwritten(i) ==
  \E j \in IssueIds :
    j > i /\ issue[j].pc = "done" /\ issue[j].p = issue[i].p /\ issue[j].s = issue[i].s
Pending(i) ==
  IF issue[i].p = "dgg"
    THEN issue[i].s \in DOMAIN dggStates /\ dggStates[issue[i].s].id = i
    ELSE issue[i].s \in DOMAIN twitchStates /\ twitchStates[issue[i].s].id = i

\* C5: an entry that has not been consumed stays in its store until 5 minutes
\* after its own issuance; only a consume of its nonce or its own expiry
\* goroutine removes it.
C5_OwnExpiryOnly ==
  \A i \in IssueIds :
    (issue[i].pc = "done" /\ sleep[i] > 0 /\ ~ConsumedEntry(i) /\ ~Overwritten(i))
      => Pending(i)

\* C11: a lookup of a nonce that is absent from the dgg store completes
\* normally: it returns the empty verifier with found=false and never faults.
C11_AbsentDggLookupReturns ==
  \A c \in CallbackIds :
    (Looked(c) /\ cb[c].p = "dgg" /\ cb[c].res # "found")
      => (cb[c].res = "notfound" /\ cb[c].verifier = <<>>)

\* the expiry goroutine of issuance i runs its delete and returns
ExpiryStep(i) == timer[i] = "wlocked" /\ timer'[i] = "done"

\* C12: when the timer of an entry fires after a callback consumed that entry
\* and the nonce was not issued again, the delete is a no-op: both stores
\* keep their contents and the goroutine returns.
C12_ExpiryAfterConsumeNoOp ==
  [][\A i \in IssueIds :
       (ExpiryStep(i) /\ ConsumedEntry(i) /\ ~Overwritten(i))
         => (dggStates' = dggStates /\ twitchStates' = twitchStates)]_vars

\* such a timer has run, removed nothing, and another entry is still pending
C12_Witness ==
  \E i \in IssueIds :
    /\ timer[i] = "done" /\ ConsumedEntry(i) /\ ~Overwritten(i)
    /\ ~\E r \in removed : r.by = <<"timer", i>>
    /\ DOMAIN dggStates \cup DOMAIN twitchStates # {}

\* a step of an issue, a lookup, a delete or an expiry on provider p's store
StepOn(p) ==
  \/ \E i \in IssueIds : issue'[i] # issue[i] /\ issue'[i].p = p
  \/ \E i \in IssueIds : timer'[i] # timer[i] /\ issue'[i].p = p
  \/ \E c \in CallbackIds : cb'[c] # cb[c] /\ cb'[c].p = p
\* every operation on the Twitch store that its own lock admits can run
TwitchNeverWaitsOnDgg ==
  /\ \A i \in IssueIds, s \in Nonces :
       (NextIssue(i) /\ NextNonce(s) /\ CanLock(twitchStateMutex))
         => ENABLED addTwitchStateLock(i, s)
  /\ \A c \in CallbackIds, s \in Nonces :
       (NextCallback(c) /\ NextNonce(s) /\ CanRLock(twitchStateMutex))
         => ENABLED hasTwitchStateRLock(c, s)
  /\ \A c \in CallbackIds :
       (cb[c].pc = "looked" /\ cb[c].p = "twitch" /\ CanLock(twitchStateMutex))
         => ENABLED callbackDeleteTwitchStateLock(c)
  /\ \A i \in IssueIds :
       (timer[i] = "sleeping" /\ issue[i].p = "twitch" /\ Expired(i)
          /\ CanLock(twitchStateMutex))
         => ENABLED expireTwitchStateLock(i)
  /\ \A i \in IssueIds :
       (issue[i].pc = "locked" /\ issue[i].p = "twitch") => ENABLED addTwitchState(i)
  /\ \A c \in CallbackIds :
       (cb[c].pc = "rlocked" /\ cb[c].p = "twitch") => ENABLED hasTwitchStateReturn(c)
  /\ \A c \in CallbackIds :
       (cb[c].pc = "wlocked" /\ cb[c].p = "twitch") => ENABLED callbackDeleteTwitchState(c)
  /\ \A i \in IssueIds :
       (timer[i] = "wlocked" /\ issue[i].p = "twitch") => ENABLED expireTwitchState(i)
DggNeverWaitsOnTwitch ==
  /\ \A i \in IssueIds, s \in Nonces :
       (NextIssue(i) /\ NextNonce(s) /\ CanLock(dggStateMutex))
         => ENABLED addDggStateLock(i, s)
  /\ \A c \in CallbackIds, s \in Nonces :
       (NextCallback(c) /\ NextNonce(s) /\ CanRLock(dggStateMutex))
         => ENABLED hasDggStateRLock(c, s)
  /\ \A c \in CallbackIds :
       (cb[c].pc = "looked" /\ cb[c].p = "dgg" /\ CanLock(dggStateMutex))
         => ENABLED callbackDeleteDggStateLock(c)
  /\ \A i \in IssueIds :
       (timer[i] = "sleeping" /\ issue[i].p = "dgg" /\ Expired(i)
          /\ CanLock(dggStateMutex))
         => ENABLED expireDggStateLock(i)
  /\ \A i \in IssueIds :
       (issue[i].pc = "locked" /\ issue[i].p = "dgg") => ENABLED addDggState(i)
  /\ \A c \in CallbackIds :
       (cb[c].pc = "rlocked" /\ cb[c].p = "dgg") => ENABLED hasDggStateReturn(c)
  /\ \A c \in CallbackIds :
       (cb[c].pc = "wlocked" /\ cb[c].p = "dgg") => ENABLED callbackDeleteDggState(c)
  /\ \A i \in IssueIds :
       (timer[i] = "wlocked" /\ issue[i].p = "dgg") => ENABLED expireDggState(i)

\* C14: the two stores are independent: every issue, lookup, delete and
\* expiry on the Twitch store leaves the dgg store's contents and lock as
\* they are and never waits on the dgg store's lock, and the same with the
\* stores exchanged.
C14_StoresIndependent ==
  /\ [](TwitchNeverWaitsOnDgg /\ DggNeverWaitsOnTwitch)
  /\ [][/\ StepOn("twitch") => UNCHANGED <<dggStates, dggStateMutex>>
        /\ StepOn("dgg") => UNCHANGED <<twitchStates, twitchStateMutex>>]_vars

\* a Twitch expiry is inside its critical section while a dgg issue holds
\* the dgg lock and the dgg store has an entry
C14_Witness ==
  \E i, j \in IssueIds :
    /\ issue[i].pc = "locked" /\ issue[i].p = "dgg"
    /\ timer[j] = "wlocked" /\ issue[j].p = "twitch"
    /\ dggStates # EmptyMap

\* the goroutines inside an add*State or delete*State on provider p's store
InsideWrite(p) ==
  {<<"add", i>> : i \in {j \in IssueIds : issue[j].pc = "locked" /\ issue[j].p = p}}
    \cup {<<"timer", i>> : i \in {j \in IssueIds : timer[j] = "wlocked" /\ issue[j].p = p}}
    \cup {<<"cb", c>> : c \in {d \in CallbackIds : cb[d].pc = "wlocked" /\ cb[d].p = p}}
\* the goroutines inside a has*State on provider p's store
InsideRead(p) ==
  {<<"cb", c>> : c \in {d \in CallbackIds : cb[d].pc = "rlocked" /\ cb[d].p = p}}
MutexOf(p) == IF p = "dgg" THEN dggStateMutex ELSE twitchStateMutex

\* C15: per store, lookups hold the lock shared and may overlap, issue and
\* delete/expiry hold it exclusively: a writer is never inside its critical
\* section together with another writer or with a reader of the same store.
C15_LockDiscipline ==
  \A p \in Providers :
    /\ MutexOf(p).w = InsideWrite(p)
    /\ MutexOf(p).r = InsideRead(p)
    /\ Cardinality(InsideWrite(p)) <= 1
    /\ InsideWrite(p) # {} => InsideRead(p) = {}

\* two lookups overlap on one store, and elsewhere a writer is alone in the other
C15_Witness ==
  \E p, q \in Providers :
    /\ Cardinality(InsideRead(p)) >= 2
    /\ InsideWrite(q) # {}

\* no issue is inside add*State or holds a lock, every expiry that was
\* spawned has completed, and both stores are empty
Quiescent ==
  /\ \A i \in IssueIds : issue[i].pc # "locked" /\ timer[i] \in {"none", "done"}
  /\ dggStateMutex.w = {} /\ twitchStateMutex.w = {}
  /\ dggStates = EmptyMap /\ twitchStates = EmptyMap
\* an issue that has returned and an expiry that has completed stay so
Returned ==
  \A i \in IssueIds :
    /\ issue[i].pc = "done" => issue'[i].pc = "done"
    /\ timer[i] = "done" => timer'[i] = "done"

\* C16: under fair scheduling of timers and lock acquisition every issue
\* returns and releases the store's lock, the expiry it spawned acquires the
\* lock and completes, and each store becomes and stays empty once issuing
\* has stopped, whether or not entries were consumed; nothing deadlocks.
\* (Every issue and every expiry runs once and, by Returned, stays done, so
\* reaching Quiescent for good means each of them got there.)
C16_EveryEntryRemoved ==
  /\ <>[]Quiescent
  /\ [][Returned]_vars

\* both stores are empty again after one entry was consumed by a callback
\* and another was removed by its timer
C16_Witness ==
  /\ dggStates = EmptyMap /\ twitchStates = EmptyMap
  /\ \A i \in IssueIds : timer[i] \in {"none", "done"}
  /\ \E r \in removed : r.by[1] = "timer"
  /\ \E r \in removed : r.by[1] = "cb"

\* C17: every entry of dggStates records the dgg provider in its service
\* field: the DESTINYGGSERVICE tag, never the Twitch tag.
C17_DggServiceTag ==
  \A s \in DOMAIN dggStates : dggStates[s].service = DESTINYGGSERVICE

\* ================================================================ sessions
\* rustle.config.Twitch.Cookie, rustle.config.Destinygg.Cookie
TwitchCookie == "jwt_twitch"
DestinyggCookie == "jwt_dgg"
CookieNames == {TwitchCookie, DestinyggCookie}

\* c.Cookie(name) fails with http.ErrNoCookie when the request has no such cookie
NoCookie == "<no cookie>"
\* cookie values a client may send: two tokens signed with the server's secret
\* and not expired, and one of alice's that has expired
Tokens == {"tok.alice", "tok.bob", "tok.alice.expired"}
CookieValues == Tokens \cup {NoCookie}

NoClaims == [Name |-> "", DisplayName |-> "", Email |-> ""]
\* jwt.ParseWithClaims(cookie, &jwtClaims{}, keyfunc): err is non-nil exactly
\* when the token is malformed, badly signed or expired, and token.Valid is
\* set exactly when err is nil; the claims of a well-formed token are decoded
\* before they are validated
ParseWithClaims(value) ==
  CASE value = "tok.alice" ->
         [err |-> FALSE, valid |-> TRUE,
          claims |-> [Name |-> "alice", DisplayName |-> "Alice", Email |-> "alice@example.org"]]
    [] value = "tok.bob" ->
         [err |-> FALSE, valid |-> TRUE,
          claims |-> [Name |-> "bob", DisplayName |-> "Bob", Email |-> "bob@example.org"]]
    [] value = "tok.alice.expired" ->
         [err |-> TRUE, valid |-> FALSE,
          claims |-> [Name |-> "alice", DisplayName |-> "Alice", Email |-> "alice@example.org"]]
    [] OTHER -> [err |-> TRUE, valid |-> FALSE, claims |-> NoClaims]

\* the preference table: a row (name, service) means "exclude this user's logs"
AddUser(table, name, service) == table \cup {<<name, service>>}
DeleteUser(table, name, service) == table \ {<<name, service>>}
UserInDatabase(table, name, service) == <<name, service>> \in table

\* deleteCookie(c, name): the response tells the client to discard cookie `name`
deleteCookie(name) == {name}

\* a response under construction
NoResponse ==
  [ran |-> FALSE, status |-> 0, json |-> "", location |-> "", cleared |-> {}]

\* getUser(c, cookie): cookie, err := c.Cookie(cookie) assigns the cookie's
\* VALUE to the parameter, so deleteCookie is called with the value
getUser(jar, cookie) ==
  LET value == jar[cookie] IN
    IF value = NoCookie
      THEN [ok |-> FALSE, claims |-> NoClaims, cleared |-> {}]
      ELSE LET token == ParseWithClaims(value) IN
        IF token.err
          THEN [ok |-> FALSE, claims |-> NoClaims, cleared |-> deleteCookie(value)]
          ELSE IF token.valid
            THEN [ok |-> TRUE, claims |-> token.claims, cleared |-> {}]
            ELSE [ok |-> FALSE, claims |-> NoClaims, cleared |-> {}]

\* c.Get("user"): what c.Set("user", claims) stored, if anything
NoUser == [ok |-> FALSE, claims |-> NoClaims]
SetUser(claims) == [ok |-> TRUE, claims |-> claims]

\* a delete that names the Twitch service on every route
deleteHandlerWrongService(service, user, table) ==
  [table |-> AddUser(table, user.claims.Name, TWITCHSERVICE),
   resp |-> [ran |-> TRUE, status |-> 302, json |-> "",
             location |-> "/?delete=true", cleared |-> {}]]

\* deleteHandler(service) / undeleteHandler(service), given c.Get("user")
deleteHandler(service, user, table) ==
  IF ~user.ok
    THEN [table |-> table,
          resp |-> [ran |-> TRUE, status |-> 401, json |-> "Unauthorized",
                    location |-> "", cleared |-> {}]]
    ELSE [table |-> AddUser(table, user.claims.Name, service),
          resp |-> [ran |-> TRUE, status |-> 302, json |-> "",
                    location |-> "/?delete=true", cleared |-> {}]]

\* an undelete that names the Twitch service on every route
undeleteHandlerWrongService(service, user, table) ==
  [table |-> DeleteUser(table, user.claims.Name, TWITCHSERVICE),
   resp |-> [ran |-> TRUE, status |-> 302, json |-> "",
             location |-> "/?delete=false", cleared |-> {}]]

undeleteHandler(service, user, table) ==
  IF ~user.ok
    THEN [table |-> table,
          resp |-> [ran |-> TRUE, status |-> 401, json |-> "Unauthorized",
                    location |-> "", cleared |-> {}]]
    ELSE [table |-> DeleteUser(table, user.claims.Name, service),
          resp |-> [ran |-> TRUE, status |-> 302, json |-> "",
                    location |-> "/?delete=false", cleared |-> {}]]

Handle(fn, service, user, table) ==
  IF fn = "delete" THEN deleteHandler(service, user, table)
                   ELSE undeleteHandler(service, user, table)

\* a middleware that drops the parse error and tests the claims' type alone
\* (token, _ := jwt.ParseWithClaims(...); if claims, ok := ...; ok {...})
jwtMiddlewareIgnoresValidity(fn, service, cookie, jar, table) ==
  LET value == jar[cookie] IN
    IF value = NoCookie
      THEN [table |-> table,
            resp |-> [NoResponse EXCEPT !.status = 401, !.json = "Unauthorized"]]
      ELSE Handle(fn, service, SetUser(ParseWithClaims(value).claims), table)

\* jwtMiddleware(fn, cookie): inside the returned closure
\* cookie, err := c.Cookie(cookie) declares a new variable holding the VALUE;
\* deleteCookie and the switch below both use that value
\* token is what jwt.ParseWithClaims returned for the cookie's value
jwtMiddlewareParsed(fn, service, cookie, jar, table, token) ==
  LET value == jar[cookie] IN
    IF value = NoCookie
      THEN [table |-> table,
            resp |-> [NoResponse EXCEPT !.status = 401, !.json = "Unauthorized"]]
      ELSE
        IF token.err
          THEN [table |-> table,
                resp |-> [NoResponse EXCEPT !.status = 401, !.json = "error",
                                            !.cleared = deleteCookie(value)]]
          ELSE IF token.valid
            THEN Handle(fn, service, SetUser(token.claims), table)
            ELSE [table |-> table,
                  resp |-> [NoResponse EXCEPT
                              !.status = 307,
                              !.location = CASE value = TwitchCookie -> "/twitch/logout"
                                             [] value = DestinyggCookie -> "/dgg/logout"
                                             [] OTHER -> "/"]]

\* the middleware as it runs against jwt-go, whose ParseWithClaims returns
\* err == nil only together with token.Valid
jwtMiddleware(fn, service, cookie, jar, table) ==
  jwtMiddlewareParsed(fn, service, cookie, jar, table, ParseWithClaims(jar[cookie]))

\* the payload indexHandler fills from the two getUser results, rendered
\* with status 200
Payload(twitch, dgg, query, table) ==
     [status |-> 200,
      cleared |-> twitch.cleared \cup dgg.cleared,
      Title |-> TITLE,
      Twitch |-> IF twitch.ok
                   THEN [Name |-> twitch.claims.DisplayName,
                         Email |-> twitch.claims.Email,
                         LoggedIn |-> TRUE,
                         IsDeleting |-> UserInDatabase(table, twitch.claims.Name, TWITCHSERVICE)]
                   ELSE [Name |-> "", Email |-> "", LoggedIn |-> FALSE, IsDeleting |-> FALSE],
      Destinygg |-> IF dgg.ok
                      THEN [Name |-> dgg.claims.DisplayName,
                            LoggedIn |-> TRUE,
                            IsDeleting |-> UserInDatabase(table, dgg.claims.Name, DESTINYGGSERVICE)]
                      ELSE [Name |-> "", LoggedIn |-> FALSE, IsDeleting |-> FALSE],
      DeleteStatus |-> query]

\* an index page that reads the Twitch cookie for both providers
indexHandlerSameCookie(jar, query, table) ==
  Payload(getUser(jar, TwitchCookie), getUser(jar, TwitchCookie), query, table)

\* indexHandler: getUser on each provider's cookie, then the payload
indexHandler(jar, query, table) ==
  Payload(getUser(jar, TwitchCookie), getUser(jar, DestinyggCookie), query, table)

\* the delete / undelete routes of main(): /twitch/... and /dgg/..., with the
\* service and the cookie name each is registered with; jwtMiddleware reads
\* no cookie but the route's
Routes ==
  {[group |-> "twitch", service |-> TWITCHSERVICE, cookie |-> TwitchCookie],
   [group |-> "dgg", service |-> DESTINYGGSERVICE, cookie |-> DestinyggCookie]}

\* the last two requests served
Push(r) == IF Len(trace) = 2 THEN <<trace[2], r>> ELSE Append(trace, r)

\* GET /<group>/delete and GET /<group>/undelete
Guarded(fn, route, value) ==
  LET jar == [n \in CookieNames |-> IF n = route.cookie THEN value ELSE NoCookie]
      out == jwtMiddleware(fn, route.service, route.cookie, jar, prefs)
  IN /\ prefs' = out.table
     /\ trace' = Push([route |-> fn, group |-> route.group, jar |-> jar,
                       before |-> prefs, after |-> out.table, resp |-> out.resp])
     /\ lastToggle' =
          LET who == <<ParseWithClaims(value).claims.Name, route.service>> IN
            IF ~out.resp.ran THEN lastToggle
            ELSE IF fn = "delete" THEN lastToggle \cup {who}
            ELSE lastToggle \ {who}
     /\ UNCHANGED storeVars

DeleteRequest == \E route \in Routes, value \in CookieValues : Guarded("delete", route, value)
UndeleteRequest == \E route \in Routes, value \in CookieValues : Guarded("undelete", route, value)

\* GET /
IndexRequest ==
  \E tw \in CookieValues, dg \in CookieValues, query \in {"", "true"} :
    LET jar == [n \in CookieNames |-> IF n = TwitchCookie THEN tw ELSE dg]
        page == indexHandler(jar, query, prefs)
    IN /\ trace' = Push([route |-> "index", group |-> "", jar |-> jar,
                         before |-> prefs, after |-> prefs,
                         resp |-> [NoResponse EXCEPT !.status = page.status,
                                                     !.cleared = page.cleared],
                         page |-> page])
       /\ UNCHANGED <<prefs, lastToggle>>
       /\ UNCHANGED storeVars

SessionNext == DeleteRequest \/ UndeleteRequest \/ IndexRequest

SpecSession == Init /\ [][SessionNext]_vars

\* ------------------------------------------- the middleware's own branches
\* what the (token, err) pair of line 229 can hold by its types: what jwt-go
\* returns for the value, or a token returned without error whose Valid
\* field is false, the case the else of line 244 is written for
ParseResults(value) ==
  {ParseWithClaims(value),
   [ParseWithClaims(value) EXCEPT !.err = FALSE, !.valid = FALSE]}

\* GET /<group>/delete and GET /<group>/undelete with the parse result drawn
GuardedParsed(fn, route, value) ==
  \E token \in ParseResults(value) :
    LET jar == [n \in CookieNames |-> IF n = route.cookie THEN value ELSE NoCookie]
        out == jwtMiddlewareParsed(fn, route.service, route.cookie, jar, prefs, token)
    IN /\ prefs' = out.table
       /\ trace' = Push([route |-> fn, group |-> route.group, jar |-> jar,
                         before |-> prefs, after |-> out.table, resp |-> out.resp,
                         token |-> token])
       /\ lastToggle' =
            LET who == <<token.claims.Name, route.service>> IN
              IF ~out.resp.ran THEN lastToggle
              ELSE IF fn = "delete" THEN lastToggle \cup {who}
              ELSE lastToggle \ {who}
       /\ UNCHANGED storeVars

DeleteParsed == \E route \in Routes, value \in CookieValues : GuardedParsed("delete", route, value)
UndeleteParsed == \E route \in Routes, value \in CookieValues : GuardedParsed("undelete", route, value)

MiddlewareNext == DeleteParsed \/ UndeleteParsed

SpecMiddleware == Init /\ [][MiddlewareNext]_vars

\* ----------------------------------------------- claims on the sessions
\* the requests in the history, and what they carried
Served == {trace[k] : k \in 1..Len(trace)}
IsGuarded(e) == e.route \in {"delete", "undelete"}
CookieOf(e) == IF e.group = "twitch" THEN TwitchCookie ELSE DestinyggCookie
ServiceOf(e) == IF e.group = "twitch" THEN TWITCHSERVICE ELSE DESTINYGGSERVICE
\* the request carries cookie n and its token passes signature and expiry validation
ValidSession(jar, n) ==
  jar[n] \in {"tok.alice", "tok.bob"}
\* the request carries cookie n and its token fails validation
InvalidToken(jar, n) ==
  jar[n] # NoCookie /\ ~ValidSession(jar, n)
NameIn(jar, n) == IF jar[n] = "tok.alice" THEN "alice" ELSE "bob"

\* C6: the handler behind jwtMiddleware runs only for a request that carries
\* the provider's cookie with a valid token; otherwise it is not invoked, the
\* preference table is unchanged and the response is a 401 JSON.
C6_GuardedOnlyWithValidSession ==
  \A e \in Served :
    IsGuarded(e) =>
      IF ValidSession(e.jar, CookieOf(e))
        THEN e.resp.ran
        ELSE ~e.resp.ran /\ e.after = e.before
             /\ e.resp.status = 401 /\ e.resp.json # ""

C6_Witness ==
  /\ \E e \in Served : IsGuarded(e) /\ e.jar[CookieOf(e)] = NoCookie /\ e.resp.status = 401
  /\ \E e \in Served : IsGuarded(e) /\ InvalidToken(e.jar, CookieOf(e)) /\ e.resp.status = 401

\* C7: whenever token validation fails in jwtMiddleware or getUser, the
\* response tells the client to discard the provider's session cookie, the
\* one whose configured name carried the offending token.
C7_InvalidCookieCleared ==
  \A e \in Served :
    \A n \in CookieNames :
      (InvalidToken(e.jar, n) /\ (IsGuarded(e) => n = CookieOf(e)))
        => n \in e.resp.cleared

SameIdentity(e1, e2) ==
  /\ IsGuarded(e1) /\ IsGuarded(e2)
  /\ e1.resp.ran /\ e2.resp.ran
  /\ e1.group = e2.group
  /\ e1.jar[CookieOf(e1)] = e2.jar[CookieOf(e2)]
DeleteUndelete ==
  /\ Len(trace) = 2
  /\ SameIdentity(trace[1], trace[2])
  /\ trace[1].route = "delete" /\ trace[2].route = "undelete"
  /\ <<NameIn(trace[1].jar, CookieOf(trace[1])), ServiceOf(trace[1])>> \notin trace[1].before
DeleteDelete ==
  /\ Len(trace) = 2
  /\ SameIdentity(trace[1], trace[2])
  /\ trace[1].route = "delete" /\ trace[2].route = "delete"

\* C8: with a valid session, delete then undelete by one identity on one
\* provider returns the preference table to its original state, in which
\* the identity had no row; delete twice leaves what delete once leaves.
C8_DeleteUndeleteRestores ==
  /\ DeleteUndelete => prefs = trace[1].before
  /\ DeleteDelete => prefs = trace[1].after

C8_Witness ==
  DeleteUndelete /\ trace[1].before # {} /\ trace[1].after # trace[1].before

\* C9: the index page shows a provider LoggedIn exactly when that provider's
\* own cookie is present and valid, whatever the other provider's cookie is,
\* and is rendered with status 200 also when a cookie is absent or invalid.
C9_IndexIndependent ==
  \A e \in Served :
    e.route = "index" =>
      /\ e.page.Twitch.LoggedIn = ValidSession(e.jar, TwitchCookie)
      /\ e.page.Destinygg.LoggedIn = ValidSession(e.jar, DestinyggCookie)
      /\ e.resp.status = 200

C9_Witness ==
  \E e \in Served :
    /\ e.route = "index"
    /\ ValidSession(e.jar, TwitchCookie) /\ InvalidToken(e.jar, DestinyggCookie)
    /\ e.page.Twitch.LoggedIn /\ ~e.page.Destinygg.LoggedIn
    /\ e.resp.status = 200

LastServed == trace[Len(trace)]

\* C10: with a valid session, the IsDeleting flag of the index page is true
\* exactly when the identity's last served delete / undelete on that provider
\* was a delete; the requests on the other provider do not change it.
C10_IsDeletingReflectsStore ==
  (Len(trace) > 0 /\ LastServed.route = "index") =>
    LET e == LastServed IN
      /\ ValidSession(e.jar, TwitchCookie) =>
           /\ e.page.Twitch.IsDeleting
                = (<<NameIn(e.jar, TwitchCookie), TWITCHSERVICE>> \in lastToggle)
           /\ e.page.Twitch.IsDeleting
                = UserInDatabase(prefs, NameIn(e.jar, TwitchCookie), TWITCHSERVICE)
      /\ ValidSession(e.jar, DestinyggCookie) =>
           /\ e.page.Destinygg.IsDeleting
                = (<<NameIn(e.jar, DestinyggCookie), DESTINYGGSERVICE>> \in lastToggle)
           /\ e.page.Destinygg.IsDeleting
                = UserInDatabase(prefs, NameIn(e.jar, DestinyggCookie), DESTINYGGSERVICE)

\* alice is deleting on dgg and not on Twitch, and the page says so
C10_Witness ==
  /\ Len(trace) > 0 /\ LastServed.route = "index"
  /\ LastServed.jar[TwitchCookie] = "tok.alice"
  /\ LastServed.jar[DestinyggCookie] = "tok.alice"
  /\ <<"alice", DESTINYGGSERVICE>> \in lastToggle
  /\ <<"alice", TWITCHSERVICE>> \notin lastToggle
  /\ LastServed.page.Destinygg.IsDeleting /\ ~LastServed.page.Twitch.IsDeleting

\* the parse returned a token without error, and the token is not valid
ParsedNotValid(e) ==
  /\ IsGuarded(e) /\ e.jar[CookieOf(e)] # NoCookie
  /\ ~e.token.err /\ ~e.token.valid

====
